---- MODULE Spec2Model ----
(***************************************************************************)
(* Model of scripts/data_acquisition.py: the streaming aggregation and     *)
(* z-score anomaly detection loop of the weather station, and of the       *)
(* helpers of its dashboard (utils/data_processing_influx.py, the pages).  *)
(*                                                                         *)
(* Numbers.  A number is a rational <<num, den>> with den > 0, kept in     *)
(* lowest terms; None is the pair <<0, 0>>.  The mean of the aggregator is *)
(* computed as Python computes it, in binary floating point: every         *)
(* addition of sum() and the final division round to the nearest number    *)
(* with a significand of Precision bits, ties to even (53 bits in          *)
(* CPython, bounded here), and so are the sums and roundings of the IAQ    *)
(* generator.  The detector's arithmetic is exact.  The                    *)
(* z-score is compared through its square: for a threshold t > 0,          *)
(* abs(z) > t  <=>  z*z > t*t, so no square root is needed.                *)
(***************************************************************************)
EXTENDS Integers, Sequences, FiniteSets, TLC

VARIABLES pc, buffer, start_time, now, historical_data,
          aggregated, anomalies, point, written, client_closed, error, received,
          store, wall, session_state, iaq_generator, call

\* the state of the acquisition script
pipe == <<pc, buffer, start_time, now, historical_data,
          aggregated, anomalies, point, written, client_closed, error, received>>

\* the state of the dashboard: the records of the database, the wall clock,
\* st.session_state, the cached IAQGenerator, and the last call of a helper
\* with its arguments and result
dash == <<store, wall, session_state, iaq_generator, call>>

vars == <<pipe, dash>>

(***************************************************************************)
(* Program constants                                                       *)
(***************************************************************************)
AGGREGATION_INTERVAL == 30

HISTORY_LIMIT == 10

sensors == <<"temperature", "humidity", "pressure", "AQI", "uv_data", "ambient_light">>

Sensors == {sensors[i] : i \in 1..Len(sensors)}

None == <<0, 0>>

(***************************************************************************)
(* Bounds of the model                                                     *)
(***************************************************************************)
\* Spec: messages the source sends in one run, and the length of the run
MaxReadings == 4

MaxTime == 100

TickSeconds == 15

\* bits of the significand of a float
Precision == 8

\* SpecLong: one reading per interval, long enough to overflow the history
MaxTimeLong == 360

\* SpecAggregate: the length of the batch handed to aggregate_buffer
MaxBatch == 3

\* SpecRefresh: how far the wall clock runs and how many records are stored
MaxWall == 5

\* SpecCalculate: how many calls of calculate_iaq are followed
MaxCalls == 4

\* SpecEventStats, SpecAxisRange: the length of the series
MaxSeries == 5

\* SpecAirQuality: the page is not run again once the session DataFrame has
\* this many rows
MaxRows == 4

MaxStored == 3

\* SpecEvents: one reading per interval, long enough for five flushes
MaxTimeEvents == 150

\* SpecSun: one reading per interval, long enough for forty-one flushes
MaxTimeSun == 1230

\* SpecRepeat: how many times the source repeats its reading
MaxRepeat == 4

\* SpecDetect: the length of the history detect_anomalies reads
MaxHist == 3

(***************************************************************************)
(* Exact rational arithmetic                                               *)
(***************************************************************************)
Abs(i) == IF i < 0 THEN -i ELSE i

RECURSIVE GCD(_, _)
GCD(a, b) == IF b = 0 THEN a ELSE GCD(b, a % b)

Rat(n, d) == LET g == GCD(Abs(n), d) IN <<n \div g, d \div g>>

RAdd(a, b) == Rat(a[1] * b[2] + b[1] * a[2], a[2] * b[2])

RSub(a, b) == Rat(a[1] * b[2] - b[1] * a[2], a[2] * b[2])

RMul(a, b) == Rat(a[1] * b[1], a[2] * b[2])

RDivInt(a, k) == Rat(a[1], a[2] * k)

RDiv(a, b) == IF b[1] > 0 THEN Rat(a[1] * b[2], a[2] * b[1])
                          ELSE Rat(-(a[1] * b[2]), a[2] * (-b[1]))

RLt(a, b) == a[1] * b[2] < b[1] * a[2]

RLe(a, b) == a[1] * b[2] <= b[1] * a[2]

RECURSIVE RSum(_)
RSum(seq) == IF seq = <<>> THEN <<0, 1>> ELSE RAdd(Head(seq), RSum(Tail(seq)))

RECURSIVE RMin(_)
RMin(seq) == IF Len(seq) = 1 THEN seq[1]
             ELSE LET m == RMin(Tail(seq)) IN IF RLt(m, seq[1]) THEN m ELSE seq[1]

RECURSIVE RMax(_)
RMax(seq) == IF Len(seq) = 1 THEN seq[1]
             ELSE LET m == RMax(Tail(seq)) IN IF RLt(seq[1], m) THEN m ELSE seq[1]

(***************************************************************************)
(* Binary floating point: round to nearest, ties to even                   *)
(***************************************************************************)
RECURSIVE Pow2(_)
Pow2(k) == IF k = 0 THEN 1 ELSE 2 * Pow2(k - 1)

\* 2^Precision: the significands are the integers below it
Radix == Pow2(Precision)

\* n / d > 0 is brought into [Radix / 2, Radix) by the power of two 2^e,
\* rounded to an integer significand and scaled back
RECURSIVE RoundPos(_, _, _)
RoundPos(n, d, e) ==
    IF n >= d * Radix THEN RoundPos(n, 2 * d, e + 1)
    ELSE IF 2 * n < d * Radix THEN RoundPos(2 * n, d, e - 1)
    ELSE LET m  == n \div d
             r  == n - m * d
             up == 2 * r > d \/ (2 * r = d /\ m % 2 = 1)
             m2 == IF up THEN m + 1 ELSE m
         IN  IF e >= 0 THEN <<m2 * Pow2(e), 1>> ELSE Rat(m2, Pow2(-e))

\* a number in lowest terms with a numerator below Radix and a power of two
\* as denominator is a float already
IsFloat(q) == Abs(q[1]) < Radix /\ q[2] <= Radix /\ Radix % q[2] = 0

Round(q) ==
    IF IsFloat(q) THEN q
    ELSE IF q[1] > 0 THEN RoundPos(q[1], q[2], 0)
    ELSE LET r == RoundPos(-q[1], q[2], 0) IN <<-r[1], r[2]>>

\* sum(values): 0 + values[0] + values[1] + ..., left to right, each
\* addition rounded
RECURSIVE FSumFrom(_, _, _)
FSumFrom(values, i, acc) ==
    IF i > Len(values) THEN acc
    ELSE FSumFrom(values, i + 1, Round(RAdd(acc, values[i])))

FSum(values) == FSumFrom(values, 1, <<0, 1>>)

(***************************************************************************)
(* Dictionaries: f"{sensor}_avg" keys and dict.get                         *)
(***************************************************************************)
Key(sensor, suffix) == sensor \o "_" \o suffix

\* dict.get(key, default): the default is used only when the key is absent;
\* a key that is present with the value None yields None.
DictGet(d, key, default) == IF key \in DOMAIN d THEN d[key] ELSE default

(***************************************************************************)
(* aggregate_buffer                                                        *)
(***************************************************************************)
\* variant: a reading that lacks the channel counts as a zero
ChannelValuesZeroFilled(buf, sensor) ==
    [i \in 1..Len(buf) |->
        IF sensor \in DOMAIN buf[i] THEN buf[i][sensor] ELSE <<0, 1>>]

\* values = [item[sensor] for item in buffer if sensor in item]
ChannelValues(buf, sensor) ==
    LET present == SelectSeq(buf, LAMBDA item : sensor \in DOMAIN item)
    IN  [i \in 1..Len(present) |-> present[i][sensor]]

\* sum(values) / len(values)
Mean(values) == Round(RDivInt(FSum(values), Len(values)))

AggregateField(buf, sensor, suffix) ==
    LET values == ChannelValues(buf, sensor)
    IN  IF values # <<>>
        THEN CASE suffix = "avg" -> Mean(values)
               [] suffix = "min" -> RMin(values)
               [] suffix = "max" -> RMax(values)
        ELSE None

\* the three entries one pass of the loop over the sensors adds
SensorAggregate(buf, sensor) ==
    (Key(sensor, "avg") :> AggregateField(buf, sensor, "avg"))
    @@ (Key(sensor, "min") :> AggregateField(buf, sensor, "min"))
    @@ (Key(sensor, "max") :> AggregateField(buf, sensor, "max"))

RECURSIVE AggregateFrom(_, _)
AggregateFrom(buf, i) ==
    IF i > Len(sensors) THEN <<>>
    ELSE SensorAggregate(buf, sensors[i]) @@ AggregateFrom(buf, i + 1)

\* clock is datetime.now(local_tz), the wall clock when the batch is aggregated
aggregate_buffer(buf, clock) == AggregateFrom(buf, 1) @@ ("timestamp" :> clock)

(***************************************************************************)
(* detect_anomalies                                                        *)
(***************************************************************************)
THRESHOLDS ==
    ("temperature" :> <<2, 1>>) @@ ("humidity" :> <<5, 2>>)
    @@ ("pressure" :> <<9, 5>>) @@ ("AQI" :> <<7, 2>>)
    @@ ("uv_data" :> <<7, 2>>) @@ ("ambient_light" :> <<3, 1>>)

\* variant: one stored average is taken as enough
EnoughHistoryOne(history) == history # <<>> /\ Len(history) >= 1

\* history and len(history) >= 2
EnoughHistory(history) == history # <<>> /\ Len(history) >= 2

\* hist_mean = sum(history) / len(history)
HistMean(history) == RDivInt(RSum(history), Len(history))

RECURSIVE SumSqDev(_, _)
SumSqDev(history, c) ==
    IF history = <<>> THEN <<0, 1>>
    ELSE LET dv == RSub(Head(history), c)
         IN  RAdd(RMul(dv, dv), SumSqDev(Tail(history), c))

\* variant: the population variance, divisor n (statistics.pstdev)
PopulationVariance(history) ==
    RDivInt(SumSqDev(history, HistMean(history)), Len(history))

\* statistics.stdev(history) squared: the sample variance, divisor n - 1
Variance(history) == RDivInt(SumSqDev(history, HistMean(history)), Len(history) - 1)

\* 0.0001 squared
EpsilonSq == <<1, 100000000>>

\* hist_std squared: statistics.stdev(history) if len(history) > 1 else 0.0001
HistStdSq(history) == IF Len(history) > 1 THEN Variance(history) ELSE EpsilonSq

\* current_value - hist_mean raises TypeError when current_value is None; the
\* conditional expression evaluates it only when hist_std != 0
ZScoreRaises(current_value, history) ==
    HistStdSq(history) # <<0, 1>> /\ current_value = None

\* z_score squared: ((current_value - hist_mean) / hist_std) ^ 2 if hist_std != 0 else 0
ZScoreSq(current_value, history) ==
    IF HistStdSq(history) # <<0, 1>>
    THEN LET dv == RSub(current_value, HistMean(history))
         IN  RDiv(RMul(dv, dv), HistStdSq(history))
    ELSE <<0, 1>>

\* abs(z_score) > threshold, on the squares
Exceeds(zsq, threshold) == RLt(RMul(threshold, threshold), zsq)

SensorAnomaly(current_value, history, sensor) ==
    IF EnoughHistory(history)
    THEN Exceeds(ZScoreSq(current_value, history), THRESHOLDS[sensor])
    ELSE FALSE

SensorRaises(current_value, history) ==
    EnoughHistory(history) /\ ZScoreRaises(current_value, history)

\* an exception in any pass of the loop aborts the function
DetectRaises(agg, hd) ==
    \E s \in Sensors : SensorRaises(DictGet(agg, Key(s, "avg"), None), hd[s])

detect_anomalies(agg, hd) ==
    [k \in {Key(s, "anomaly") : s \in Sensors} |->
        LET s == CHOOSE s \in Sensors : k = Key(s, "anomaly")
        IN  SensorAnomaly(DictGet(agg, Key(s, "avg"), None), hd[s], s)]

(***************************************************************************)
(* fetch_and_process_data: the pieces of one flush                         *)
(***************************************************************************)
\* variant: pop() drops the newest average instead of the oldest
AppendCappedDropNewest(history, value) ==
    LET h == Append(history, value)
    IN  IF Len(h) > HISTORY_LIMIT THEN SubSeq(h, 1, HISTORY_LIMIT) ELSE h

\* historical_data[sensor].append(value); pop(0) past the limit
AppendCapped(history, value) ==
    LET h == Append(history, value)
    IN  IF Len(h) > HISTORY_LIMIT THEN Tail(h) ELSE h

\* variant: the average is appended without the test for None
UpdateHistoryAlways(hd, agg) ==
    [s \in DOMAIN hd |-> AppendCapped(hd[s], DictGet(agg, Key(s, "avg"), None))]

UpdateHistory(hd, agg) ==
    [s \in DOMAIN hd |->
        LET aggregated_value == DictGet(agg, Key(s, "avg"), None)
        IN  IF aggregated_value # None
            THEN AppendCapped(hd[s], aggregated_value)
            ELSE hd[s]]

\* variant: the history loop runs before the detector
DetectedAfterUpdate(agg, hd) == detect_anomalies(agg, UpdateHistory(hd, agg))

\* line 116 runs before the history loop of lines 121-127: the detector sees
\* the history as it was before this batch
Detected(agg, hd) == detect_anomalies(agg, hd)

BoolInt(b) == IF b THEN 1 ELSE 0

\* Point("environment").tag(...).field(...)....time(...)
MakePoint(record) ==
    [measurement |-> "environment",
     tags   |-> [location |-> "office"],
     fields |-> [k \in {Key(s, x) : s \in Sensors, x \in {"avg", "min", "max"}} |->
                    DictGet(record, k, <<0, 1>>)]
                @@ [k \in {Key(s, "anomaly") : s \in Sensors} |->
                    BoolInt(DictGet(record, k, None))],
     time   |-> record["timestamp"]]

(***************************************************************************)
(* Inputs: the readings the source can send                                *)
(***************************************************************************)
Full(v) == [s \in Sensors |-> v]

Readings == {Full(<<10, 1>>), Full(<<21, 2>>), ("temperature" :> <<12, 1>>)}

LongReadings == {Full(<<10, 1>>), Full(<<21, 2>>)}

\* data["timestamp"] = time.strftime(...)
Stamp(data, clock) == ("timestamp" :> clock) @@ data

\* the dashboard is not running
DashIdle ==
    /\ store = {}
    /\ wall = 0
    /\ session_state = <<>>
    /\ iaq_generator = <<>>
    /\ call = <<>>

(***************************************************************************)
(* State after the module is loaded and fetch_and_process_data has run up  *)
(* to websockets.connect                                                   *)
(***************************************************************************)
Init ==
    /\ pc = "connect"
    /\ buffer = <<>>
    /\ now = 0
    /\ start_time = 0
    /\ historical_data = [s \in Sensors |-> <<>>]
    /\ aggregated = <<>>
    /\ anomalies = <<>>
    /\ point = <<>>
    /\ written = 0
    /\ client_closed = FALSE
    /\ error = "none"
    /\ received = 0
    /\ DashIdle

\* except Exception as e: print(...); finally: client.close()
Terminate(e) ==
    /\ pc' = "done"
    /\ error' = e
    /\ client_closed' = TRUE

\* async with websockets.connect(WEBSOCKET_URL)
Connect(ok) ==
    /\ pc = "connect"
    /\ IF ok THEN pc' = "recv" /\ UNCHANGED <<error, client_closed>>
             ELSE Terminate("ConnectError")
    /\ UNCHANGED <<buffer, start_time, now, historical_data,
                   aggregated, anomalies, point, written, received>>
    /\ UNCHANGED dash

\* the sink write failed: the exception leaves the loop
WriteFailed(buf) ==
    /\ Terminate("ApiException")
    /\ buffer' = buf
    /\ UNCHANGED <<written, start_time>>

\* variant: the write is handed to a background writer and the loop goes on
\* before the point is stored
WriteInBackground ==
    /\ written' = written
    /\ buffer' = <<>>
    /\ start_time' = now
    /\ pc' = "sleep"
    /\ UNCHANGED <<error, client_closed>>

\* the sink write succeeded: buffer.clear(); start_time = time.time()
WriteDone ==
    /\ written' = written + 1
    /\ buffer' = <<>>
    /\ start_time' = now
    /\ pc' = "sleep"
    /\ UNCHANGED <<error, client_closed>>

\* variant: the batch is written and the timer restarted, but the buffer is
\* not cleared
FlushKeepsBuffer(buf, writeOk) ==
    /\ aggregated' = aggregate_buffer(buf, now)
    /\ IF DetectRaises(aggregated', historical_data)
       THEN /\ Terminate("TypeError")
            /\ buffer' = buf
            /\ UNCHANGED <<anomalies, historical_data, point, written, start_time>>
       ELSE /\ anomalies' = Detected(aggregated', historical_data)
            /\ historical_data' = UpdateHistory(historical_data, aggregated')
            /\ point' = MakePoint(anomalies' @@ aggregated')
            /\ IF writeOk
               THEN /\ written' = written + 1
                    /\ buffer' = buf
                    /\ start_time' = now
                    /\ pc' = "sleep"
                    /\ UNCHANGED <<error, client_closed>>
               ELSE WriteFailed(buf)

\* lines 115-163: the branch taken when the interval has elapsed; buf is the
\* buffer with the new reading appended
Flush(buf, writeOk) ==
    /\ aggregated' = aggregate_buffer(buf, now)
    /\ IF DetectRaises(aggregated', historical_data)
       THEN /\ Terminate("TypeError")
            /\ buffer' = buf
            /\ UNCHANGED <<anomalies, historical_data, point, written, start_time>>
       ELSE /\ anomalies' = Detected(aggregated', historical_data)
            /\ historical_data' = UpdateHistory(historical_data, aggregated')
            /\ point' = MakePoint(anomalies' @@ aggregated')
            /\ IF writeOk THEN WriteDone ELSE WriteFailed(buf)

\* variant: the interval is tested before the new reading is appended, and
\* the flush takes the buffer as it is
RecvFlushesFirst(data, writeOk) ==
    /\ pc = "recv"
    /\ received' = received + 1
    /\ IF now - start_time >= AGGREGATION_INTERVAL
       THEN Flush(buffer, writeOk)
       ELSE /\ buffer' = Append(buffer, Stamp(data, now))
            /\ pc' = "sleep"
            /\ UNCHANGED <<aggregated, anomalies, historical_data, point,
                           written, start_time, error, client_closed>>
    /\ UNCHANGED now
    /\ UNCHANGED dash

\* variant: start_time = time.time() sits inside the loop, so every pass
\* restarts the timer before the interval is tested
RecvRestartsTimer(data, writeOk) ==
    /\ pc = "recv"
    /\ received' = received + 1
    /\ buffer' = Append(buffer, Stamp(data, now))
    /\ start_time' = now
    /\ pc' = "sleep"
    /\ UNCHANGED <<aggregated, anomalies, historical_data, point,
                   written, error, client_closed, now>>
    /\ UNCHANGED dash

\* one pass of the while loop, from the arrival of a message to the sleep
Recv(data, writeOk) ==
    /\ pc = "recv"
    /\ received' = received + 1
    /\ IF now - start_time >= AGGREGATION_INTERVAL
       THEN Flush(Append(buffer, Stamp(data, now)), writeOk)
       ELSE /\ buffer' = Append(buffer, Stamp(data, now))
            /\ pc' = "sleep"
            /\ UNCHANGED <<aggregated, anomalies, historical_data, point,
                           written, start_time, error, client_closed>>
    /\ UNCHANGED now
    /\ UNCHANGED dash

\* variant: the failure is reported and the connection is opened again
RecvFailReconnect(e) ==
    /\ pc = "recv"
    /\ pc' = "connect"
    /\ error' = e
    /\ UNCHANGED <<buffer, start_time, now, historical_data, aggregated,
                   anomalies, point, written, client_closed, received>>
    /\ UNCHANGED dash

\* websocket.recv() raises ConnectionClosed, or json.loads rejects the message
RecvFail(e) ==
    /\ pc = "recv"
    /\ Terminate(e)
    /\ UNCHANGED <<buffer, start_time, now, historical_data,
                   aggregated, anomalies, point, written, received>>
    /\ UNCHANGED dash

\* await asyncio.sleep(0.1)
Sleep ==
    /\ pc = "sleep"
    /\ pc' = "recv"
    /\ UNCHANGED <<buffer, start_time, now, historical_data, aggregated,
                   anomalies, point, written, client_closed, error, received>>
    /\ UNCHANGED dash

\* variant: the pending batch is aggregated and written on the way out
CancelDrains ==
    /\ pc \in {"recv", "sleep"}
    /\ pc' = "done"
    /\ client_closed' = TRUE
    /\ aggregated' = aggregate_buffer(buffer, now)
    /\ written' = written + 1
    /\ buffer' = <<>>
    /\ UNCHANGED <<start_time, now, historical_data, anomalies, point, error,
                   received>>
    /\ UNCHANGED dash

\* the task is cancelled at an await (Ctrl-C): CancelledError is not an
\* Exception, so only the finally clause runs
Cancel ==
    /\ pc \in {"recv", "sleep"}
    /\ pc' = "done"
    /\ client_closed' = TRUE
    /\ UNCHANGED <<buffer, start_time, now, historical_data,
                   aggregated, anomalies, point, written, error, received>>
    /\ UNCHANGED dash

\* the wall clock advances while the task is alive
Tick(d) ==
    /\ pc \in {"connect", "recv", "sleep"}
    /\ now' = now + d
    /\ UNCHANGED <<pc, buffer, start_time, historical_data, aggregated,
                   anomalies, point, written, client_closed, error, received>>
    /\ UNCHANGED dash

Next ==
    \/ \E ok \in BOOLEAN : Connect(ok)
    \/ \E data \in Readings, writeOk \in BOOLEAN :
          received < MaxReadings /\ Recv(data, writeOk)
    \/ \E e \in {"ConnectionClosed", "JSONDecodeError"} : RecvFail(e)
    \/ Sleep
    \/ Cancel
    \/ now + TickSeconds <= MaxTime /\ Tick(TickSeconds)

Spec == Init /\ [][Next]_vars

(***************************************************************************)
(* SpecLong: the source sends one reading per aggregation interval and     *)
(* nothing fails, so that the histories fill up and overflow               *)
(***************************************************************************)
NextLong ==
    \/ Connect(TRUE)
    \/ \E data \in LongReadings :
          /\ now - start_time >= AGGREGATION_INTERVAL
          /\ Recv(data, TRUE)
    \/ Sleep
    \/ /\ pc = "recv"
       /\ now - start_time < AGGREGATION_INTERVAL
       /\ now + AGGREGATION_INTERVAL <= MaxTimeLong
       /\ Tick(AGGREGATION_INTERVAL)

SpecLong == Init /\ [][NextLong]_vars

(***************************************************************************)
(* SpecEvents: one reading per aggregation interval, dark (10) or bright   *)
(* (30) on every channel, so that the ultraviolet and the light averages   *)
(* jump up and down between consecutive batches                            *)
(***************************************************************************)
EventReadings == {Full(<<10, 1>>), Full(<<30, 1>>)}

NextEvents ==
    \/ Connect(TRUE)
    \/ \E data \in EventReadings :
          /\ now - start_time >= AGGREGATION_INTERVAL
          /\ Recv(data, TRUE)
    \/ Sleep
    \/ /\ pc = "recv"
       /\ now - start_time < AGGREGATION_INTERVAL
       /\ now + AGGREGATION_INTERVAL <= MaxTimeEvents
       /\ Tick(AGGREGATION_INTERVAL)

SpecEvents == Init /\ [][NextEvents]_vars

(***************************************************************************)
(* SpecSun: the same bright reading once per aggregation interval, for a   *)
(* long unbroken run of batches                                            *)
(***************************************************************************)
SunReadings == {Full(<<10, 1>>)}

NextSun ==
    \/ Connect(TRUE)
    \/ \E data \in SunReadings :
          /\ now - start_time >= AGGREGATION_INTERVAL
          /\ Recv(data, TRUE)
    \/ Sleep
    \/ /\ pc = "recv"
       /\ now - start_time < AGGREGATION_INTERVAL
       /\ now + AGGREGATION_INTERVAL <= MaxTimeSun
       /\ Tick(AGGREGATION_INTERVAL)

SpecSun == Init /\ [][NextSun]_vars

(***************************************************************************)
(* SpecRepeat: the source sends one and the same reading, up to MaxRepeat  *)
(* times, until the first batch is written                                 *)
(***************************************************************************)
RepeatReadings == {Full(<<10, 1>>), Full(<<21, 2>>), Full(<<87, 1>>)}

\* every reading of the buffer is data with its arrival time
Repeats(data) ==
    \A i \in 1..Len(buffer) : buffer[i] = Stamp(data, buffer[i]["timestamp"])

NextRepeat ==
    \/ Connect(TRUE)
    \/ \E data \in RepeatReadings :
          /\ written = 0
          /\ received < MaxRepeat
          /\ Repeats(data)
          /\ Recv(data, TRUE)
    \/ Sleep
    \/ /\ written = 0
       /\ now - start_time < AGGREGATION_INTERVAL
       /\ Tick(TickSeconds)

SpecRepeat == Init /\ [][NextRepeat]_vars

(***************************************************************************)
(* SpecLive: nothing fails and the source keeps sending.  The sleep of     *)
(* line 166 returns: weak fairness on Sleep.  The source keeps sending:    *)
(* the loop is not left for ever at the recv of line 107 while the source  *)
(* has a reading to send.  An arrival is enabled exactly in those states   *)
(* and leaves them, so this is weak fairness on Arrival, written without   *)
(* ENABLED.                                                                *)
(***************************************************************************)
Arrival ==
    \E data \in LongReadings : received < MaxReadings /\ Recv(data, TRUE)

NextLive ==
    \/ Connect(TRUE)
    \/ Arrival
    \/ Sleep
    \/ now + TickSeconds <= MaxTime /\ Tick(TickSeconds)

\* the loop waits at recv and the source has a reading to send
ArrivalPending == pc = "recv" /\ received < MaxReadings

SpecLive ==
    Init /\ [][NextLive]_vars /\ WF_vars(Sleep) /\ []<>~ArrivalPending

(***************************************************************************)
(* SpecAggregate: aggregate_buffer applied to every batch of bounded       *)
(* length                                                                  *)
(***************************************************************************)
Without(data, sensor) == [s \in DOMAIN data \ {sensor} |-> data[s]]

AggReadings ==
    {Full(<<10, 1>>), Full(<<21, 2>>), ("temperature" :> <<12, 1>>),
     Without(Full(<<9, 1>>), "temperature"), Full(<<87, 1>>)}

Batches ==
    UNION {[1..n -> {Stamp(data, 0) : data \in AggReadings}] : n \in 0..MaxBatch}

InitAggregate ==
    /\ pc = "call_aggregate"
    /\ buffer \in Batches
    /\ now = 0
    /\ start_time = 0
    /\ historical_data = [s \in Sensors |-> <<>>]
    /\ aggregated = <<>>
    /\ anomalies = <<>>
    /\ point = <<>>
    /\ written = 0
    /\ client_closed = FALSE
    /\ error = "none"
    /\ received = Len(buffer)
    /\ DashIdle

AggregateCall ==
    /\ pc = "call_aggregate"
    /\ aggregated' = aggregate_buffer(buffer, now)
    /\ pc' = "returned"
    /\ UNCHANGED <<buffer, start_time, now, historical_data, anomalies,
                   point, written, client_closed, error, received>>
    /\ UNCHANGED dash

NextAggregate == AggregateCall

SpecAggregate == InitAggregate /\ [][NextAggregate]_vars

(***************************************************************************)
(* SpecDetect: detect_anomalies applied to every history of bounded length *)
(* and the aggregate of a one-reading batch                                *)
(***************************************************************************)
DetectVals == {<<9, 1>>, <<10, 1>>, <<21, 2>>, <<11, 1>>, <<12, 1>>, <<13, 1>>}

Histories == UNION {[1..n -> DetectVals] : n \in 0..MaxHist}

DetectReadings ==
    {Full(v) : v \in DetectVals}
    \cup {Without(Full(v), "pressure") : v \in DetectVals}
    \cup {<<>>}

\* the first entry of a history, or nothing
Young(history) == SubSeq(history, 1, IF Len(history) > 1 THEN 1 ELSE Len(history))

InitDetect ==
    /\ pc = "call_detect"
    /\ buffer = <<>>
    /\ now = 0
    /\ start_time = 0
    /\ \E h \in Histories, lone \in BOOLEAN :
          historical_data =
             [s \in Sensors |-> IF lone /\ s = "humidity" THEN Young(h) ELSE h]
    /\ \E data \in DetectReadings :
          aggregated = aggregate_buffer(<<Stamp(data, 0)>>, 0)
    /\ anomalies = <<>>
    /\ point = <<>>
    /\ written = 0
    /\ client_closed = FALSE
    /\ error = "none"
    /\ received = 1
    /\ DashIdle

DetectCall ==
    /\ pc = "call_detect"
    /\ IF DetectRaises(aggregated, historical_data)
       THEN /\ error' = "TypeError"
            /\ pc' = "raised"
            /\ UNCHANGED anomalies
       ELSE /\ anomalies' = detect_anomalies(aggregated, historical_data)
            /\ pc' = "returned"
            /\ UNCHANGED error
    /\ UNCHANGED <<buffer, start_time, now, historical_data, aggregated,
                   point, written, client_closed, received>>
    /\ UNCHANGED dash

NextDetect == DetectCall

SpecDetect == InitDetect /\ [][NextDetect]_vars

(***************************************************************************)
(* The dashboard (utils/data_processing_influx.py and the pages).          *)
(* st.session_state is a function from its keys to their values: a key    *)
(* that was never set is not in its domain.  A time is an instant, counted *)
(* from the epoch; an optional time is <<>> (None) or <<t>>.  A DataFrame  *)
(* is the sequence of its rows, a row a function from column names.        *)
(***************************************************************************)
\* the acquisition script plays no part
PipeIdle ==
    /\ pc = "dashboard"
    /\ buffer = <<>>
    /\ now = 0
    /\ start_time = 0
    /\ historical_data = [s \in Sensors |-> <<>>]
    /\ aggregated = <<>>
    /\ anomalies = <<>>
    /\ point = <<>>
    /\ written = 0
    /\ client_closed = FALSE
    /\ error = "none"
    /\ received = 0

\* pd.Timestamp('1970-01-01T00:00:00Z')
Epoch == 0

\* session_state[key] = value
SetKey(ss, key, value) ==
    [k \in DOMAIN ss \cup {key} |-> IF k = key THEN value ELSE ss[k]]

\* the rows of a set of rows, by increasing _time: sort(columns: ["_time"])
RECURSIVE SortByTime(_)
SortByTime(rows) ==
    IF rows = {} THEN <<>>
    ELSE LET first == CHOOSE r \in rows : \A q \in rows : r["Timestamp"] <= q["Timestamp"]
         IN  <<first>> \o SortByTime(rows \ {first})

\* one row of the pivoted result: range() gives every record the columns
\* _start and _stop, the bounds of the query (the stop of an open range is
\* the time of the query), and pivot keeps them with the fields of the record
QueryRow(record, start, stop) ==
    ("Timestamp" :> record.time) @@ ("_start" :> start) @@ ("_stop" :> stop)
    @@ ("AQI_avg" :> record.gas_resistance)

\* query_api.query_data_frame(query): the records from start (included) to
\* the time of the query (excluded)
QueryDataFrame(records, start, stop) ==
    SortByTime({QueryRow(r, start, stop) :
                   r \in {q \in records : start <= q.time /\ q.time < stop}})

\* DataFrame.drop_duplicates(): a row equal in every column to an earlier
\* row is dropped
RECURSIVE DropDuplicatesFrom(_, _, _)
DropDuplicatesFrom(df, i, kept) ==
    IF i > Len(df) THEN kept
    ELSE DropDuplicatesFrom(df, i + 1,
            IF \E j \in 1..Len(kept) : kept[j] = df[i]
            THEN kept ELSE Append(kept, df[i]))

DropDuplicates(df) == DropDuplicatesFrom(df, 1, <<>>)

\* df_new['Timestamp'].max()
RECURSIVE MaxTimestamp(_)
MaxTimestamp(df) ==
    IF Len(df) = 1 THEN df[1]["Timestamp"]
    ELSE LET m == MaxTimestamp(Tail(df))
         IN  IF df[1]["Timestamp"] > m THEN df[1]["Timestamp"] ELSE m

\* the page script before the call: if 'df' not in st.session_state: ...
PageInit(ss) ==
    IF "df" \in DOMAIN ss THEN ss
    ELSE SetKey(SetKey(SetKey(ss, "df", <<>>), "data_fetched", FALSE),
                "last_fetch_time", <<>>)

\* update_df_from_db(client), as a function of the session, the records of
\* the database and the time of the query
update_df_from_db(ss, records, clock) ==
    LET ss1 == IF "last_fetch_time" \notin DOMAIN ss \/ ss["last_fetch_time"] = <<>>
               THEN SetKey(ss, "last_fetch_time", <<Epoch>>)
               ELSE ss
        df_new == QueryDataFrame(records, ss1["last_fetch_time"][1], clock)
    IN  IF df_new = <<>> THEN ss1
        ELSE LET df == IF "df" \notin DOMAIN ss1 \/ ss1["df"] = <<>>
                       THEN df_new
                       ELSE DropDuplicates(ss1["df"] \o df_new)
             IN  SetKey(SetKey(SetKey(ss1, "df", df),
                               "last_fetch_time", <<MaxTimestamp(df_new)>>),
                        "data_fetched", TRUE)

\* the refresh has run at least once
Refreshed == "df" \in DOMAIN session_state

(***************************************************************************)
(* SpecRefresh: the acquisition side stores records while the page is      *)
(* rerun again and again                                                   *)
(***************************************************************************)
GasValues == {50, 60}

InitRefresh ==
    /\ PipeIdle
    /\ store = {}
    /\ wall = 1
    /\ session_state = <<>>
    /\ iaq_generator = <<>>
    /\ call = <<>>

\* a point is written to the database with the current time
StoreRecord(gas) ==
    /\ \A r \in store : r.time < wall
    /\ store' = store \cup {[time |-> wall, gas_resistance |-> gas]}
    /\ UNCHANGED <<wall, session_state, iaq_generator, call>>
    /\ UNCHANGED pipe

WallTick ==
    /\ wall' = wall + 1
    /\ UNCHANGED <<store, session_state, iaq_generator, call>>
    /\ UNCHANGED pipe

\* one run of the page script: the initialisation and the refresh
Refresh ==
    /\ session_state' = update_df_from_db(PageInit(session_state), store, wall)
    /\ call' = [name |-> "update_df_from_db"]
    /\ UNCHANGED <<store, wall, iaq_generator>>
    /\ UNCHANGED pipe

NextRefresh ==
    \/ \E gas \in GasValues : Cardinality(store) < MaxStored /\ StoreRecord(gas)
    \/ wall < MaxWall /\ WallTick
    \/ Refresh

SpecRefresh == InitRefresh /\ [][NextRefresh]_vars

(***************************************************************************)
(* The IAQ generator (class IAQGenerator).  Its numbers are floats: every  *)
(* arithmetic result is rounded as in Mean.                                *)
(***************************************************************************)
\* IAQGenerator(): the constructor with its default arguments
IAQGenerator ==
    [min_iaq |-> <<110, 1>>, max_iaq |-> <<170, 1>>, delta |-> <<2, 1>>,
     current_iaq |-> <<140, 1>>]

\* min(a, b) and max(a, b) of two numbers
Lesser(a, b) == IF RLt(b, a) THEN b ELSE a

Greater(a, b) == IF RLt(a, b) THEN b ELSE a

\* round(x, 2): the multiple of 1/100 nearest to x, ties to the even one,
\* as a float
RoundHundredths(q) ==
    LET n  == q[1] * 100
        m  == n \div q[2]
        r  == n - m * q[2]
        up == 2 * r > q[2] \/ (2 * r = q[2] /\ m % 2 = 1)
    IN  Round(Rat(IF up THEN m + 1 ELSE m, 100))

\* the value get_next_iaq stores and returns when random.uniform gives change
NextIaq(gen, change) ==
    LET new_iaq == Round(RAdd(gen.current_iaq, change))
    IN  RoundHundredths(Greater(gen.min_iaq, Lesser(new_iaq, gen.max_iaq)))

\* the generator after get_next_iaq
get_next_iaq(gen, change) == [gen EXCEPT !.current_iaq = NextIaq(gen, change)]

\* values of random.uniform(-delta, delta) for the default delta
Changes ==
    {<<0 - 2, 1>>, <<0 - 1, 2>>, <<0 - 1, 4>>, <<1, 4>>, <<1, 2>>, <<2, 1>>}

(***************************************************************************)
(* SpecGenerator: get_next_iaq is called again and again on one generator  *)
(***************************************************************************)
InitGenerator ==
    /\ PipeIdle
    /\ store = {}
    /\ wall = 1
    /\ session_state = <<>>
    /\ iaq_generator = IAQGenerator
    /\ call = <<>>

GetNextIaq(change) ==
    /\ iaq_generator' = get_next_iaq(iaq_generator, change)
    /\ call' = [name |-> "get_next_iaq", change |-> change,
                result |-> NextIaq(iaq_generator, change)]
    /\ UNCHANGED <<store, wall, session_state>>
    /\ UNCHANGED pipe

NextGenerator == \E change \in Changes : GetNextIaq(change)

SpecGenerator == InitGenerator /\ [][NextGenerator]_vars

(***************************************************************************)
(* calculate_iaq.  The generator is the one cached object of the process   *)
(* (st.cache_resource): the session only holds a reference to it.          *)
(***************************************************************************)
\* the keys calculate_iaq sets when they are missing
IaqDefaults(ss) ==
    LET ss1 == IF "iaq_generator" \in DOMAIN ss THEN ss
               ELSE SetKey(ss, "iaq_generator", "cached")
        ss2 == IF "last_gas_resistance" \in DOMAIN ss1 THEN ss1
               ELSE SetKey(ss1, "last_gas_resistance", <<>>)
    IN  IF "last_iaq" \in DOMAIN ss2 THEN ss2
        ELSE SetKey(ss2, "last_iaq", <<140, 1>>)

\* calculate_iaq draws whatever the reading is
calculate_iaq_always(ss, gen, r_gas, change) ==
    [ss  |-> SetKey(SetKey(IaqDefaults(ss), "last_iaq", NextIaq(gen, change)),
                    "last_gas_resistance", <<r_gas>>),
     gen |-> get_next_iaq(gen, change),
     iaq |-> NextIaq(gen, change)]

\* calculate_iaq(r_gas, humidity): the session and the generator after the
\* call, and the value returned; change is what random.uniform gives if the
\* generator is asked
calculate_iaq(ss, gen, r_gas, change) ==
    LET ss1 == IaqDefaults(ss)
    IN  IF <<r_gas>> # ss1["last_gas_resistance"]
        THEN [ss  |-> SetKey(SetKey(ss1, "last_iaq", NextIaq(gen, change)),
                             "last_gas_resistance", <<r_gas>>),
              gen |-> get_next_iaq(gen, change),
              iaq |-> NextIaq(gen, change)]
        ELSE [ss |-> ss1, gen |-> gen, iaq |-> ss1["last_iaq"]]

(***************************************************************************)
(* SpecCalculate: one session calls calculate_iaq again and again, while   *)
(* other sessions draw from the same generator; call is the list of the    *)
(* calls of the session                                                    *)
(***************************************************************************)
SomeChanges == {<<0 - 2, 1>>, <<1, 2>>}

CalculateIaq(r_gas, change) ==
    /\ session_state' = calculate_iaq(session_state, iaq_generator, r_gas, change).ss
    /\ iaq_generator' = calculate_iaq(session_state, iaq_generator, r_gas, change).gen
    /\ call' = Append(call,
          [name |-> "calculate_iaq", r_gas |-> r_gas,
           result |-> calculate_iaq(session_state, iaq_generator, r_gas, change).iaq])
    /\ UNCHANGED <<store, wall>>
    /\ UNCHANGED pipe

\* a page run of another session, later on the clock
OtherSession(change) ==
    /\ iaq_generator' = get_next_iaq(iaq_generator, change)
    /\ wall' = wall + 1
    /\ UNCHANGED <<store, session_state, call>>
    /\ UNCHANGED pipe

NextCalculate ==
    \/ \E r_gas \in GasValues, change \in SomeChanges :
          Len(call) < MaxCalls /\ CalculateIaq(r_gas, change)
    \/ \E change \in SomeChanges : wall < MaxWall /\ OtherSession(change)

SpecCalculate == InitGenerator /\ [][NextCalculate]_vars

(***************************************************************************)
(* update_iaq_values and the Air Quality page that calls it                *)
(***************************************************************************)
\* the DataFrame the page hands to update_iaq_values: a copy of the session
\* DataFrame sorted by Timestamp, with a fresh index
PageFrame(ss) == SortByTime({ss["df"][i] : i \in 1..Len(ss["df"])})

\* st.session_state.iaq_values, [] when it was never set
IaqValues(ss) == IF "iaq_values" \in DOMAIN ss THEN ss["iaq_values"] ELSE <<>>

\* the loop of update_iaq_values from row i on; the k-th draw uses changes[k]
RECURSIVE UpdateIaqFrom(_, _, _, _, _, _)
UpdateIaqFrom(ss, gen, df, i, k, changes) ==
    IF i > Len(df) THEN [ss |-> ss, gen |-> gen]
    ELSE LET r == calculate_iaq(ss, gen, df[i]["AQI_avg"],
                                changes[((k - 1) % Len(changes)) + 1])
         IN  UpdateIaqFrom(SetKey(r.ss, "iaq_values",
                                  Append(ss["iaq_values"], r.iaq)),
                           r.gen, df, i + 1, k + 1, changes)

\* update_iaq_values computes the last stored row again
update_iaq_values_again(ss, gen, df, changes) ==
    LET ss1 == SetKey(ss, "iaq_values", IaqValues(ss))
    IN  UpdateIaqFrom(ss1, gen, df,
                      IF ss1["iaq_values"] = <<>> THEN 1 ELSE Len(ss1["iaq_values"]),
                      1, changes)

\* update_iaq_values(df): the session and the generator after the call
update_iaq_values(ss, gen, df, changes) ==
    LET ss1 == SetKey(ss, "iaq_values", IaqValues(ss))
    IN  UpdateIaqFrom(ss1, gen, df, Len(ss1["iaq_values"]) + 1, 1, changes)

(***************************************************************************)
(* SpecAirQuality: records are stored while the Air Quality page is run    *)
(* again and again                                                         *)
(***************************************************************************)
InitAirQuality == InitGenerator

\* one run of the page script: the initialisation, the refresh and, when
\* there is data, the update of the IAQ values
AirQualityPage(changes) ==
    LET ss1 == update_df_from_db(PageInit(session_state), store, wall)
    IN  /\ IF ss1["data_fetched"] /\ ss1["df"] # <<>>
           THEN /\ session_state' =
                      update_iaq_values(ss1, iaq_generator, PageFrame(ss1), changes).ss
                /\ iaq_generator' =
                      update_iaq_values(ss1, iaq_generator, PageFrame(ss1), changes).gen
           ELSE /\ session_state' = ss1
                /\ iaq_generator' = iaq_generator
        /\ call' = [name |-> "update_iaq_values", rows |-> Len(ss1["df"])]
        /\ UNCHANGED <<store, wall>>
        /\ UNCHANGED pipe

NextAirQuality ==
    \/ \E gas \in GasValues : Cardinality(store) < MaxStored /\ StoreRecord(gas)
    \/ wall < MaxWall /\ WallTick
    \/ \E changes \in [1..MaxStored -> SomeChanges] :
          /\ Refreshed => Len(session_state["df"]) < MaxRows
          /\ AirQualityPage(changes)

SpecAirQuality == InitAirQuality /\ [][NextAirQuality]_vars

(***************************************************************************)
(* get_event_stats (pages/4_UV_and_Light.py).  The DataFrame is the        *)
(* sequence of its rows [Timestamp, value], value being the column asked   *)
(* for; times are counted in minutes.                                      *)
(***************************************************************************)
\* mask = df[column] >= threshold
Mask(df, threshold) == [i \in 1..Len(df) |-> df[i].value >= threshold]

\* df.groupby(runs): the groups <<first row, last row>> of consecutive rows
\* with the same mask, in order; a group starts where the mask changes
RECURSIVE GroupsFrom(_, _, _)
GroupsFrom(mask, i, groups) ==
    IF i > Len(mask) THEN groups
    ELSE IF i = 1 \/ mask[i] # mask[i - 1]
         THEN GroupsFrom(mask, i + 1, Append(groups, <<i, i>>))
         ELSE GroupsFrom(mask, i + 1,
                 [groups EXCEPT ![Len(groups)] = <<groups[Len(groups)][1], i>>])

\* every group counts as an "on" period
AnyPeriod(df, group, threshold) == TRUE

\* if grp[column].iloc[0] >= threshold
OnPeriod(df, group, threshold) == df[group[1]].value >= threshold

\* the periods of the "on" groups
RECURSIVE DurationsFrom(_, _, _, _)
DurationsFrom(df, groups, threshold, k) ==
    IF k > Len(groups) THEN <<>>
    ELSE (IF OnPeriod(df, groups[k], threshold)
          THEN <<[start    |-> df[groups[k][1]].Timestamp,
                  end      |-> df[groups[k][2]].Timestamp,
                  duration |-> df[groups[k][2]].Timestamp - df[groups[k][1]].Timestamp]>>
          ELSE <<>>)
         \o DurationsFrom(df, groups, threshold, k + 1)

\* [d for d in durations if d["start"] >= today]
RECURSIVE TodayEvents(_, _)
TodayEvents(durations, today) ==
    IF durations = <<>> THEN <<>>
    ELSE (IF Head(durations).start >= today THEN <<Head(durations)>> ELSE <<>>)
         \o TodayEvents(Tail(durations), today)

\* get_event_stats(df, column, threshold), has_column telling whether the
\* column is in df.columns, and today being pd.Timestamp.now().floor('D');
\* last_time is <<>> (None) or <<time>>
get_event_stats(df, has_column, threshold, today) ==
    IF df = <<>> \/ ~has_column THEN [durations |-> <<>>, last_time |-> <<>>]
    ELSE LET durations == DurationsFrom(df, GroupsFrom(Mask(df, threshold), 1, <<>>),
                                        threshold, 1)
             today_events == TodayEvents(durations, today)
         IN  [durations |-> today_events,
              last_time |-> IF today_events # <<>>
                            THEN <<today_events[Len(today_events)].end>>
                            ELSE <<>>]

(***************************************************************************)
(* SpecEventStats: get_event_stats applied to a time-ordered series        *)
(***************************************************************************)
\* ambient_light readings around the threshold the page passes
LightValues == {10, 20, 30}

LightThresholds == {20}

\* the series of the given readings, one a minute
Series(values) == [i \in 1..Len(values) |-> [Timestamp |-> i, value |-> values[i]]]

InitEventStats ==
    /\ PipeIdle
    /\ store = {}
    /\ wall = 1
    /\ session_state = <<>>
    /\ iaq_generator = <<>>
    /\ \E n \in 0..MaxSeries : \E values \in [1..n -> LightValues] :
       \E threshold \in LightThresholds, today \in 1..MaxSeries :
       \E has_column \in BOOLEAN :
          call = [name |-> "get_event_stats", df |-> Series(values),
                  has_column |-> has_column, threshold |-> threshold, today |-> today, returned |-> FALSE,
                  result |-> <<>>]

GetEventStats ==
    /\ ~call.returned
    /\ call' = [call EXCEPT !.returned = TRUE,
                            !.result = get_event_stats(call.df, call.has_column,
                                                      call.threshold, call.today)]
    /\ UNCHANGED <<store, wall, session_state, iaq_generator>>
    /\ UNCHANGED pipe

NextEventStats == GetEventStats

SpecEventStats == InitEventStats /\ [][NextEventStats]_vars

(***************************************************************************)
(* axis_range (streamlit_app_influx.py).  The series are averages of       *)
(* sensor readings, of a size at which v - 1, v + 1 and a padding of 0.5   *)
(* or more are far above the rounding of a float: the arithmetic is exact. *)
(***************************************************************************)
\* the padding without the least padding
PaddingOfSpan(span, padding_ratio, min_padding) == RMul(span, padding_ratio)

\* padding = max(span * padding_ratio, min_padding)
Padding(span, padding_ratio, min_padding) ==
    Greater(RMul(span, padding_ratio), min_padding)

\* axis_range(series, padding_ratio, min_padding): the pair <<lo, hi>>
axis_range(series, padding_ratio, min_padding) ==
    IF series = <<>> THEN << <<0, 1>>, <<1, 1>> >>
    ELSE LET val_min == RMin(series)
             val_max == RMax(series)
         IN  IF val_min = val_max
             THEN <<RSub(val_min, <<1, 1>>), RAdd(val_min, <<1, 1>>)>>
             ELSE LET padding == Padding(RSub(val_max, val_min),
                                         padding_ratio, min_padding)
                  IN  <<RSub(val_min, padding), RAdd(val_max, padding)>>

(***************************************************************************)
(* SpecAxisRange: axis_range applied to a series, with its default         *)
(* padding_ratio = 0.1 and min_padding = 0.5                               *)
(***************************************************************************)
\* averages: close to each other and far apart, one below zero
AxisValues == {<<0 - 3, 1>>, <<10, 1>>, <<21, 2>>, <<87, 1>>}

InitAxisRange ==
    /\ PipeIdle
    /\ store = {}
    /\ wall = 1
    /\ session_state = <<>>
    /\ iaq_generator = <<>>
    /\ \E n \in 0..MaxSeries : \E series \in [1..n -> AxisValues] :
          call = [name |-> "axis_range", series |-> series, returned |-> FALSE,
                  result |-> <<>>]

AxisRange ==
    /\ ~call.returned
    /\ call' = [call EXCEPT !.returned = TRUE,
                            !.result = axis_range(call.series, <<1, 10>>, <<1, 2>>)]
    /\ UNCHANGED <<store, wall, session_state, iaq_generator>>
    /\ UNCHANGED pipe

NextAxisRange == AxisRange

SpecAxisRange == InitAxisRange /\ [][NextAxisRange]_vars

(***************************************************************************)
(* Properties                                                              *)
(***************************************************************************)
AggFields == {"avg", "min", "max"}

\* the readings of the buffer that carry the channel
Carriers(sensor) == {i \in 1..Len(buffer) : sensor \in DOMAIN buffer[i]}

\* C1: for every batch and every channel with at least one value in it,
\* min <= avg <= max, avg being the mean of the values present.
C1_MinAvgMax ==
    pc = "returned" =>
        \A s \in Sensors :
            Carriers(s) # {} =>
                /\ RLe(aggregated[Key(s, "min")], aggregated[Key(s, "avg")])
                /\ RLe(aggregated[Key(s, "avg")], aggregated[Key(s, "max")])

IsNumber(v) == v[2] > 0

\* C2: a channel without any value in the batch is aggregated to 0, and the
\* point handed to the sink carries the number 0 for it: no aggregate field
\* of the record or of the point is ever None.
C2_EmptyChannelIsZero ==
    \A s \in Sensors, x \in AggFields :
        /\ aggregated # <<>> => IsNumber(aggregated[Key(s, x)])
        /\ point # <<>> => IsNumber(point.fields[Key(s, x)])

Constant(history) == \A i \in 1..Len(history) : history[i] = history[1]

RAbs(a) == <<Abs(a[1]), a[2]>>

\* C3: with a constant history (standard deviation zero) epsilon 1e-4 stands
\* in for the deviation: a current average further than threshold * 1e-4
\* from the mean is flagged, as for history [10, 10, 10] and current 10.5.
C3_EpsilonForZeroDeviation ==
    pc = "returned" =>
        \A s \in Sensors :
            LET history == historical_data[s]
                current == aggregated[Key(s, "avg")]
            IN  (/\ Len(history) >= 2
                 /\ Constant(history)
                 /\ current # None
                 /\ RLt(RMul(THRESHOLDS[s], <<1, 10000>>),
                        RAbs(RSub(current, history[1]))))
                => anomalies[Key(s, "anomaly")] = TRUE

\* C4: a channel whose history holds fewer than 2 averages is never flagged
\* and never makes detect_anomalies raise; with every history that short
\* (as at start-up) the call returns and no channel is flagged.
C4_ShortHistoryNeverFlagged ==
    /\ pc = "returned" =>
          \A s \in Sensors :
              Len(historical_data[s]) < 2 => anomalies[Key(s, "anomaly")] = FALSE
    /\ pc = "raised" =>
          \E s \in Sensors :
              Len(historical_data[s]) >= 2 /\ aggregated[Key(s, "avg")] = None
    /\ pc \in {"returned", "raised"} =>
          ((\A s \in Sensors : Len(historical_data[s]) < 2) => pc = "returned")

\* a channel with one stored average and a different current average stays
\* unflagged while another channel of the same call is flagged
C4_Witness ==
    /\ pc = "returned"
    /\ Len(historical_data["humidity"]) = 1
    /\ aggregated["humidity_avg"] # None
    /\ aggregated["humidity_avg"] # historical_data["humidity"][1]
    /\ anomalies["humidity_anomaly"] = FALSE
    /\ anomalies["temperature_anomaly"] = TRUE

ClaimedThreshold(s) ==
    CASE s = "temperature" -> <<20, 10>>
      [] s = "humidity" -> <<25, 10>>
      [] s = "pressure" -> <<18, 10>>
      [] s = "AQI" -> <<35, 10>>
      [] s = "uv_data" -> <<35, 10>>
      [] s = "ambient_light" -> <<30, 10>>

RECURSIVE SumOfSquares(_)
SumOfSquares(seq) ==
    IF seq = <<>> THEN <<0, 1>>
    ELSE RAdd(RMul(Head(seq), Head(seq)), SumOfSquares(Tail(seq)))

\* (n - 1) * s^2 = sum(x^2) - sum(x)^2 / n for the Bessel-corrected s
BesselSumSq(history) ==
    RSub(SumOfSquares(history),
         RDivInt(RMul(RSum(history), RSum(history)), Len(history)))

\* abs((current - mean) / s) > t, cleared of the root and the divisions:
\* (current - mean)^2 * (n - 1) > t^2 * (n - 1) * s^2
ClaimedFlag(current, history, s) ==
    LET dv == RSub(current, RDivInt(RSum(history), Len(history)))
        t  == Rat(ClaimedThreshold(s)[1], ClaimedThreshold(s)[2])
    IN  RLt(RMul(RMul(t, t), BesselSumSq(history)),
            RMul(RMul(dv, dv), <<Len(history) - 1, 1>>))

\* C5: with at least 2 history points and a non-zero deviation, the flag of
\* a channel is abs((current - mean) / stdev) > threshold, strictly, with the
\* n-1 sample deviation and the channel's own threshold (2.0, 2.5, 1.8, 3.5,
\* 3.5, 3.0).
C5_ZScoreAgainstThreshold ==
    pc = "returned" =>
        \A s \in Sensors :
            LET history == historical_data[s]
                current == aggregated[Key(s, "avg")]
            IN  (Len(history) >= 2 /\ ~Constant(history) /\ current # None)
                => anomalies[Key(s, "anomaly")] = ClaimedFlag(current, history, s)

\* history [9, 10, 11] and current 13: z is exactly 3.0, so humidity (2.5)
\* is flagged and ambient light (3.0) is not
C5_Witness ==
    /\ pc = "returned"
    /\ historical_data["ambient_light"] = <<(<<9, 1>>), (<<10, 1>>), (<<11, 1>>)>>
    /\ historical_data["humidity"] = historical_data["ambient_light"]
    /\ aggregated["ambient_light_avg"] = <<13, 1>>
    /\ aggregated["humidity_avg"] = <<13, 1>>
    /\ anomalies["humidity_anomaly"] = TRUE
    /\ anomalies["ambient_light_anomaly"] = FALSE
    /\ anomalies["uv_data_anomaly"] = FALSE

\* the last n elements of a sequence, all of them when it is shorter
LastUpTo(seq, n) ==
    IF Len(seq) <= n THEN seq ELSE SubSeq(seq, Len(seq) - n + 1, Len(seq))

\* a step that aggregated a batch and did not die in the detector
Flushed == aggregated' # aggregated /\ error' # "TypeError"

\* C6: a history never holds more than 10 averages, and each flush leaves
\* in it the last (up to 10) of its old content followed by the new average:
\* arrival order, oldest evicted first.
C6_HistoryIsLastTen ==
    /\ [](\A s \in Sensors : Len(historical_data[s]) <= 10)
    /\ [][Flushed =>
            \A s \in Sensors :
                aggregated'[Key(s, "avg")] # None =>
                    historical_data'[s] =
                        LastUpTo(Append(historical_data[s],
                                        aggregated'[Key(s, "avg")]), 10)]_vars

\* twelve flushes have gone through a full history whose oldest and newest
\* entries differ
C6_Witness ==
    /\ written = 12
    /\ Len(historical_data["temperature"]) = 10
    /\ historical_data["temperature"][1] # historical_data["temperature"][10]
    /\ historical_data["temperature"][1] # historical_data["temperature"][2]

\* C7: the flags of a batch are those of the detector run on the history as
\* it was before the flush, and the batch's average is the last entry of the
\* history after the flush (append-after-compare).
C7_AppendAfterCompare ==
    [][Flushed =>
        /\ anomalies' = detect_anomalies(aggregated', historical_data)
        /\ \A s \in Sensors :
              aggregated'[Key(s, "avg")] # None =>
                  /\ historical_data'[s] # <<>>
                  /\ historical_data'[s][Len(historical_data'[s])]
                        = aggregated'[Key(s, "avg")]]_vars

\* the third flush flagged the temperature against the two earlier averages
\* (10 and 10.25, current 10.5); against all three it would not be flagged
C7_Witness ==
    /\ written = 3
    /\ historical_data["temperature"] = <<(<<10, 1>>), (<<41, 4>>), (<<21, 2>>)>>
    /\ anomalies["temperature_anomaly"] = TRUE
    /\ ~SensorAnomaly(<<21, 2>>, historical_data["temperature"], "temperature")

\* C8: a flush whose batch has no value for some channel completes: it never
\* ends the loop with an exception of the detector.
C8_MissingChannelIsNoError ==
    (aggregated # <<>> /\ \E s \in Sensors : aggregated[Key(s, "avg")] = None)
        => ~(pc = "done" /\ error = "TypeError")

\* C9: a failed sink write does not stop the pipeline.
C9_WriteFailureDoesNotStop ==
    error = "ApiException" => pc # "done"

TransportErrors == {"ConnectError", "ConnectionClosed", "JSONDecodeError"}

\* C10: after a transport failure the task is over and the sink client is
\* closed; once the task is over it never connects, buffers or writes again.
C10_TransportFailureIsFinal ==
    /\ [](error \in TransportErrors => pc = "done" /\ client_closed)
    /\ [][pc = "done" =>
            /\ pc' = "done"
            /\ buffer' = buffer
            /\ written' = written
            /\ received' = received
            /\ client_closed']_vars

\* the connection dropped after a point was written and with a reading
\* still buffered
C10_Witness ==
    /\ pc = "done"
    /\ error = "ConnectionClosed"
    /\ client_closed
    /\ written >= 1
    /\ buffer # <<>>

\* the keys a point must carry for every channel
ChannelKeys == {Key(s, x) : s \in Sensors, x \in {"avg", "min", "max", "anomaly"}}

EventFlags == {"sunlight_exposure", "light_on_event", "light_off_event"}

\* the point carries the flag and the flag has the value
FlagIs(p, flag, value) ==
    flag \in DOMAIN p.fields /\ p.fields[flag] = value

\* C11: every written point carries avg, min, max and an anomaly flag (sent
\* as 0 or 1) for each of the six channels, the three boolean event flags,
\* the location tag and the aggregation timestamp of its batch.
C11_PointSchema ==
    written >= 1 =>
        /\ ChannelKeys \subseteq DOMAIN point.fields
        /\ \A s \in Sensors : point.fields[Key(s, "anomaly")] \in {0, 1}
        /\ EventFlags \subseteq DOMAIN point.fields
        /\ \A f \in EventFlags : point.fields[f] \in BOOLEAN
        /\ point.tags.location = "office"
        /\ point.time = aggregated["timestamp"]

ClaimedOnThreshold == <<85, 100>>

\* C12: in an unbroken run of batches with uv_smooth >= 0.85 the sustained
\* flag is raised on the 40th batch of the run and on no other.  In SpecSun
\* every batch has the same ultraviolet average, which is then also the
\* median of the last 21, and the run starts with the first batch.
C12_SustainedOnFortieth ==
    (written >= 1 /\ RLe(ClaimedOnThreshold, point.fields["uv_data_avg"])) =>
        (written = 40 <=> FlagIs(point, "sunlight_exposure", TRUE))

ClaimedLightCutoff == <<20, 1>>

\* the batch is a raw light-on candidate: the light average rose from below
\* the cut-off to it or above
RawOn(previous, current) ==
    RLt(previous, ClaimedLightCutoff) /\ RLe(ClaimedLightCutoff, current)

\* the step wrote the point of a batch
Wrote == written' = written + 1

\* C13: a raw light-on candidate emits light_on_event = true when no light-on
\* event was emitted before or the last one is at least one aggregation
\* interval old.  Here the batch is the first raw candidate of the run, so
\* nothing was emitted before.
C13_FirstOnCandidateEmits ==
    [][(/\ Wrote
        /\ Len(historical_data["ambient_light"]) = 1
        /\ RawOn(historical_data["ambient_light"][1],
                 aggregated'["ambient_light_avg"]))
       => FlagIs(point', "light_on_event", TRUE)]_vars

ClaimedDeltaThresh == <<2, 1>>

\* C14: the sunlight-exposure flag of a batch is true when the ultraviolet
\* average rose by 2.0 or more over the previous batch, whatever the length
\* of the run.
C14_DeltaJumpRaisesFlag ==
    [][(/\ Wrote
        /\ historical_data["uv_data"] # <<>>
        /\ RLe(ClaimedDeltaThresh,
               RSub(aggregated'["uv_data_avg"],
                    historical_data["uv_data"][Len(historical_data["uv_data"])])))
       => FlagIs(point', "sunlight_exposure", TRUE)]_vars

ClaimedDelta(s) ==
    CASE s = "temperature" -> <<15, 100>>
      [] s = "humidity" -> <<85, 100>>
      [] s = "pressure" -> <<18, 100>>

Last(seq) == seq[Len(seq)]

\* C15: under the delta policy a channel is anomalous exactly when its
\* average moved by more than the channel's delta threshold since the
\* previous average, as soon as a previous average exists.
C15_DeltaPolicy ==
    pc = "returned" =>
        \A s \in {"temperature", "humidity", "pressure"} :
            (historical_data[s] # <<>> /\ IsNumber(aggregated[Key(s, "avg")])) =>
                anomalies[Key(s, "anomaly")] =
                    RLt(ClaimedDelta(s),
                        RAbs(RSub(aggregated[Key(s, "avg")],
                                  Last(historical_data[s]))))

\* C16: the point written for a batch of one reading repeated N >= 1 times
\* has, on every channel, avg = min = max = the value of that reading.  In
\* SpecRepeat every batch is such a batch, and min is the value itself.
C16_RepeatedReadingUnchanged ==
    written = 1 =>
        \A s \in Sensors :
            /\ point.fields[Key(s, "avg")] = point.fields[Key(s, "min")]
            /\ point.fields[Key(s, "min")] = point.fields[Key(s, "max")]

\* the step took in a reading
Received == received' = received + 1

\* the step aggregated a batch
Aggregated == aggregated' # aggregated

\* C17: a flush is one step of the loop.  The step that aggregates a batch is
\* the step that took in the batch's last reading, and it ends with the batch
\* detected, written and the buffer cleared, or with the loop stopped by the
\* failure of the detection or of the write; the buffer grows in no other
\* step than the arrival of a reading, so every reading buffered after a
\* write arrived after that batch was aggregated and written.
C17_FlushIsAtomic ==
    /\ [][Aggregated =>
            /\ pc = "recv" /\ Received
            /\ \/ /\ pc' = "sleep"
                  /\ written' = written + 1
                  /\ point'.time = aggregated'["timestamp"]
                  /\ DOMAIN anomalies' # {}
                  /\ buffer' = <<>>
               \/ /\ pc' = "done"
                  /\ error' \in {"TypeError", "ApiException"}
                  /\ written' = written]_vars
    /\ [][Len(buffer') > Len(buffer) =>
            /\ pc = "recv" /\ Received
            /\ Len(buffer') = Len(buffer) + 1]_vars
    /\ [][(written' # written \/ Len(buffer') < Len(buffer)) => Aggregated]_vars

\* C17 witness: a batch has been written and a reading of the next batch is
\* in the buffer, the loop still running
C17_Witness ==
    /\ pc = "sleep"
    /\ written >= 1
    /\ buffer # <<>>
    /\ \A i \in 1..Len(buffer) : buffer[i]["timestamp"] >= point.time

\* the sink was called in this step: the point was stored or the call raised
WriteCalled == written' = written + 1 \/ error' = "ApiException"

C19_ReadingInOneBatch ==
    /\ [][Wrote =>
            /\ buffer' = <<>>
            /\ start_time' = now
            /\ \E data \in Readings : \A x \in AggFields :
                  aggregated'[Key("temperature", x)] =
                     AggregateField(Append(buffer, Stamp(data, now)), "temperature", x)]_vars
    /\ [][(~Aggregated /\ buffer' # buffer) =>
            \E data \in Readings : buffer' = Append(buffer, Stamp(data, now))]_vars
    /\ [](pc \in {"recv", "sleep"} =>
            /\ Len(buffer) <= received - written
            /\ \A i \in 1..Len(buffer) : buffer[i]["timestamp"] >= start_time)

\* C19 witness: a batch of three readings has been written and the fourth
\* reading is alone in the buffer
C19_Witness ==
    /\ pc = "recv"
    /\ written = 1
    /\ received = 4
    /\ Len(buffer) = 1
    /\ start_time >= AGGREGATION_INTERVAL

\* the loop is running and 30 s or more have passed since the last drain
IntervalElapsed ==
    pc \in {"recv", "sleep"} /\ now - start_time >= 30

\* the batch has just been written: buffer empty, timer restarted
Drained == pc = "sleep" /\ buffer = <<>> /\ start_time = now /\ written >= 1

\* C20: when nothing fails and readings keep arriving, every time the
\* interval has elapsed the next point is eventually written; it is written
\* by the very next arrival, which also empties the buffer, so the buffer
\* holds no more than the readings that arrived since the last drain.
\* "Keep arriving" is, within the bound, "the source has a reading left".
C20_FlushEventuallyHappens ==
    /\ (IntervalElapsed /\ received < MaxReadings) ~> Drained
    /\ [][(IntervalElapsed /\ Received) => (Wrote /\ buffer' = <<>>)]_vars

\* C20 witness: the second point has just been written, the interval having
\* elapsed twice
C20_Witness ==
    /\ pc = "sleep"
    /\ written = 2
    /\ buffer = <<>>
    /\ start_time = now
    /\ now >= 60

\* the history of the channel after one more average, capped at ten
Pushed(history, value) == LastUpTo(Append(history, value), 10)

\* C21 as stated: in every flush each channel's history takes the batch's
\* average, once, after the aggregate is produced and before the detector
\* runs, so that the flags are those of the detector on the updated history.
C21_UpdateBeforeDetect ==
    [][Aggregated =>
        /\ \A s \in Sensors :
              historical_data'[s] =
                 Pushed(historical_data[s], aggregated'[Key(s, "avg")])
        /\ anomalies' = detect_anomalies(aggregated', historical_data')]_vars

\* C21 amended: in every flush each channel's history is mutated at most
\* once, by the append of the batch's average when the batch has a value for
\* the channel and the detector has returned, and not at all otherwise; the
\* flags are those of the detector on the history as it was before that
\* append; no other step touches a history.
C21_UpdateAfterDetect ==
    /\ [][(Aggregated /\ error' # "TypeError") =>
            /\ anomalies' = detect_anomalies(aggregated', historical_data)
            /\ \A s \in Sensors :
                  historical_data'[s] =
                     IF aggregated'[Key(s, "avg")] # None
                     THEN Pushed(historical_data[s], aggregated'[Key(s, "avg")])
                     ELSE historical_data[s]]_vars
    /\ [][(~Aggregated \/ error' = "TypeError") => UNCHANGED historical_data]_vars

\* C21 witness: the third point was written with a flag that the history
\* before the batch justifies, one channel having taken an average less
\* than the others
C21_Witness ==
    /\ written = 3
    /\ \E s \in Sensors : anomalies[Key(s, "anomaly")] = TRUE
    /\ \E s, t \in Sensors : Len(historical_data[s]) < Len(historical_data[t])

\* the step ends the loop
LoopEnds == pc # "done" /\ pc' = "done"

\* C22: once the loop has ended nothing is aggregated or written; the step
\* that ends it writes nothing, and unless it is a flush that failed in the
\* detector or in the write it aggregates nothing and leaves the pending
\* readings where they are, unprocessed.
C22_PendingBatchDiscarded ==
    /\ [][pc = "done" =>
            (aggregated' = aggregated /\ point' = point /\ written' = written)]_vars
    /\ [][LoopEnds =>
            /\ written' = written
            /\ client_closed'
            /\ error' \notin {"TypeError", "ApiException"} =>
                  (aggregated' = aggregated /\ point' = point /\ buffer' = buffer)]_vars

\* C22 witness: the task was cancelled after a point was written, with two
\* readings of the next batch pending
C22_Witness ==
    /\ pc = "done"
    /\ error = "none"
    /\ written = 1
    /\ Len(buffer) = 2
    /\ aggregated["timestamp"] < buffer[1]["timestamp"]

\* C23: aggregate_buffer is only called right after a reading was appended,
\* so on a batch of at least one reading: the step that aggregates is the
\* step that took a reading in; the aggregate has a temperature, which every
\* reading of the source carries; and when the flush fails the batch left in
\* the buffer is not empty and ends with a reading stamped now.
C23_FlushedBatchNotEmpty ==
    [][Aggregated =>
        /\ Received
        /\ aggregated'["temperature_min"] # None
        /\ pc' = "done" =>
              /\ buffer' # <<>>
              /\ Last(buffer')["timestamp"] = now
              /\ SubSeq(buffer', 1, Len(buffer') - 1) = buffer]_vars

\* C23 witness: the only reading received so far made a batch of its own and
\* its point is written
C23_Witness ==
    /\ received = 1
    /\ written = 1
    /\ point.fields["temperature_min"] = point.fields["temperature_max"]

\* C24: a flush whose batch has no value for a channel leaves that channel's
\* history as it was; a history changes only by taking the numeric average
\* of the batch being flushed; so a history never holds None.
C24_NoValueNoHistoryChange ==
    /\ [][Aggregated =>
            \A s \in Sensors :
                aggregated'[Key(s, "avg")] = None =>
                    historical_data'[s] = historical_data[s]]_vars
    /\ [][\A s \in Sensors :
            historical_data'[s] # historical_data[s] =>
                /\ Aggregated
                /\ IsNumber(aggregated'[Key(s, "avg")])
                /\ Last(historical_data'[s]) = aggregated'[Key(s, "avg")]]_vars
    /\ [](\A s \in Sensors : \A i \in 1..Len(historical_data[s]) :
             IsNumber(historical_data[s][i]))

\* C24 witness: the second batch had a temperature only; the humidity
\* history still holds the one average of the first batch
C24_Witness ==
    /\ written = 2
    /\ aggregated["humidity_avg"] = None
    /\ Len(historical_data["humidity"]) = 1
    /\ Len(historical_data["temperature"]) = 2

\* C25: across the refreshes last_fetch_time never decreases, and the
\* session DataFrame holds every stored record at most once (no two rows
\* with the time of the same record).
C25_NoDuplicateRecords ==
    /\ [][(Refreshed /\ session_state["last_fetch_time"] # <<>>) =>
            session_state'["last_fetch_time"][1]
               >= session_state["last_fetch_time"][1]]_vars
    /\ [](Refreshed =>
            \A i, j \in 1..Len(session_state["df"]) :
                session_state["df"][i]["Timestamp"]
                   = session_state["df"][j]["Timestamp"] => i = j)

\* C26: after any sequence of get_next_iaq calls on a generator that starts
\* within [min_iaq, max_iaq], current_iaq stays within [min_iaq, max_iaq],
\* each call changes it by at most delta, and the value returned is the
\* stored current_iaq.
C26_GeneratorBounded ==
    /\ [](/\ RLe(iaq_generator.min_iaq, iaq_generator.current_iaq)
          /\ RLe(iaq_generator.current_iaq, iaq_generator.max_iaq))
    /\ [][/\ RLe(RSub(iaq_generator'.current_iaq, iaq_generator.current_iaq),
                 iaq_generator.delta)
          /\ RLe(RSub(iaq_generator.current_iaq, iaq_generator'.current_iaq),
                 iaq_generator.delta)]_vars
    /\ [](call # <<>> => call.result = iaq_generator.current_iaq)

\* a call of calculate_iaq has just been added to the list
Called == call' # call /\ Len(call') = Len(call) + 1

\* the reading of the call just made is that of the call before it
SameReading ==
    /\ "last_gas_resistance" \in DOMAIN session_state
    /\ session_state["last_gas_resistance"] = <<Last(call').r_gas>>

\* C27: calculate_iaq advances the generator only when the gas resistance
\* differs from that of the previous call: a call with the same r_gas returns
\* the same IAQ and leaves last_iaq, last_gas_resistance and the generator
\* unchanged, and a call with another r_gas draws a new value, stores it and
\* returns it, even if that r_gas was seen earlier.
C27_DrawOnlyOnChange ==
    /\ [][(Called /\ SameReading) =>
            /\ Last(call').result = Last(call).result
            /\ session_state' = session_state
            /\ iaq_generator' = iaq_generator]_vars
    /\ [][(Called /\ ~SameReading) =>
            /\ \E change \in Changes :
                  iaq_generator' = get_next_iaq(iaq_generator, change)
            /\ Last(call').result = iaq_generator'.current_iaq
            /\ session_state'["last_iaq"] = Last(call').result
            /\ session_state'["last_gas_resistance"] = <<Last(call').r_gas>>]_vars

\* three calls with the readings 50, 60, 50: the third is a reading seen
\* before and still draws; then a fourth call repeats the third
C27_Witness ==
    /\ Len(call) = 4
    /\ call[1].r_gas = call[3].r_gas
    /\ call[2].r_gas # call[1].r_gas
    /\ call[3].result # call[1].result
    /\ call[4].r_gas = call[3].r_gas
    /\ call[4].result # iaq_generator.current_iaq

\* the page has just handed a DataFrame to update_iaq_values
Updated ==
    /\ call' # <<>>
    /\ call'.name = "update_iaq_values"
    /\ call'.rows > 0

\* C28: update_iaq_values is append-only: the values already stored stay as
\* they are, values are computed only for the rows from len(iaq_values) to
\* len(df) - 1, one each, the last of them being the session's last_iaq for
\* the reading of the last row, and afterwards len(iaq_values) >= len(df).
C28_IaqValuesAppendOnly ==
    /\ [][/\ Len(IaqValues(session_state')) >= Len(IaqValues(session_state))
          /\ SubSeq(IaqValues(session_state'), 1, Len(IaqValues(session_state)))
                = IaqValues(session_state)]_vars
    /\ [][Updated =>
            /\ Len(IaqValues(session_state')) >= call'.rows
            /\ Len(IaqValues(session_state')) =
                  IF call'.rows > Len(IaqValues(session_state))
                  THEN call'.rows ELSE Len(IaqValues(session_state))
            /\ Len(IaqValues(session_state')) > Len(IaqValues(session_state)) =>
                  /\ session_state'["last_iaq"] = Last(IaqValues(session_state'))
                  /\ session_state'["last_gas_resistance"] =
                        <<Last(PageFrame(session_state'))["AQI_avg"]>>]_vars

\* a second run of the page has added values for new rows only
C28_Witness ==
    /\ call # <<>>
    /\ call.rows = 3
    /\ Len(IaqValues(session_state)) = 3
    /\ session_state["iaq_values"][1] # session_state["iaq_values"][2]
    /\ session_state["df"][3]["_start"] # session_state["df"][1]["_start"]

\* the rows of the series within a period
RowsIn(df, period) ==
    {i \in 1..Len(df) : period.start <= df[i].Timestamp /\ df[i].Timestamp <= period.end}

\* C29: for a time-ordered series the periods returned by get_event_stats are
\* maximal runs of rows with value >= threshold: disjoint and in time order,
\* each with start <= end, every row inside at or above the threshold, the
\* rows just before and just after below it, and last_time the end of the
\* last returned period, or None when none is returned.
C29_PeriodsAreMaximalRuns ==
    call.returned =>
       LET df      == call.df
           periods == call.result.durations
       IN  /\ \A k \in 1..Len(periods) :
                 /\ periods[k].start <= periods[k].end
                 /\ RowsIn(df, periods[k]) # {}
                 /\ \A i \in RowsIn(df, periods[k]) : df[i].value >= call.threshold
                 /\ \A i \in RowsIn(df, periods[k]) :
                       /\ (i > 1 /\ i - 1 \notin RowsIn(df, periods[k])) =>
                             df[i - 1].value < call.threshold
                       /\ (i < Len(df) /\ i + 1 \notin RowsIn(df, periods[k])) =>
                             df[i + 1].value < call.threshold
           /\ \A k \in 1..Len(periods) : \A l \in 1..Len(periods) :
                 k < l => periods[k].end < periods[l].start
           /\ call.result.last_time =
                 IF periods = <<>> THEN <<>> ELSE <<periods[Len(periods)].end>>

\* on, off, on, off, on with the first period before today: two periods
\* are returned
C29_Witness ==
    /\ call.returned
    /\ Len(call.df) = 5
    /\ call.today = 2
    /\ Len(call.result.durations) = 2
    /\ call.result.durations[1].start = 3
    /\ call.result.last_time = <<5>>
    /\ call.df[1].value >= call.threshold

\* v is the least (greatest) value of the series
Least(series, v) ==
    (\E i \in 1..Len(series) : series[i] = v)
       /\ \A i \in 1..Len(series) : RLe(v, series[i])

Largest(series, v) ==
    (\E i \in 1..Len(series) : series[i] = v)
       /\ \A i \in 1..Len(series) : RLe(series[i], v)

\* C30: axis_range returns a pair [lo, hi] with lo < hi, and lo < min and
\* max < hi for a series that is not empty: [0, 1] for an empty series,
\* [v - 1, v + 1] for a constant one, and otherwise the least and the largest
\* value moved out by max(10% of the span, 0.5).
C30_AxisRangeEncloses ==
    call.returned =>
       LET lo == call.result[1]
           hi == call.result[2]
       IN  /\ RLt(lo, hi)
           /\ \A i \in 1..Len(call.series) :
                 RLt(lo, call.series[i]) /\ RLt(call.series[i], hi)
           /\ call.series = <<>> => (lo = <<0, 1>> /\ hi = <<1, 1>>)
           /\ \A a \in AxisValues : \A b \in AxisValues :
                 (Least(call.series, a) /\ Largest(call.series, b)) =>
                    IF a = b
                    THEN lo = RSub(a, <<1, 1>>) /\ hi = RAdd(a, <<1, 1>>)
                    ELSE LET tenth == RDivInt(RSub(b, a), 10)
                             pad   == IF RLt(<<1, 2>>, tenth) THEN tenth ELSE <<1, 2>>
                         IN  lo = RSub(a, pad) /\ hi = RAdd(b, pad)

\* a series whose span is below 5: the least padding applies
C30_Witness ==
    /\ call.returned
    /\ Len(call.series) = 3
    /\ Least(call.series, <<10, 1>>)
    /\ Largest(call.series, <<21, 2>>)
    /\ call.result = << <<19, 2>>, <<11, 1>> >>

====
